---- MODULE Spec2Model ----
(***************************************************************************)
(* Model of streamlit_app.py: the team / member / skill / competency       *)
(* application.  The program is a Streamlit script: every user interaction *)
(* (a button click, a slider move) runs the whole script top to bottom     *)
(* against st.session_state.teams.  One action of the model is one such    *)
(* interaction, i.e. one complete script run (including the rerun that     *)
(* "Delete" requests).                                                      *)
(*                                                                         *)
(* Python dicts keep insertion order; a dict is modelled as the sequence   *)
(* of its items [k |-> key, v |-> value].                                  *)
(*                                                                         *)
(* Framework behaviour the model relies on:                                *)
(*  - a button is True only in the run its click triggers, and at most one *)
(*    widget changes per run;                                              *)
(*  - a slider returns the value the user gave it, keeps that value across *)
(*    runs, and starts at min_value;                                       *)
(*  - st.rerun() abandons the current run and starts a new one.            *)
(* st.plotly_chart and the widget-key registry are not modelled; skill     *)
(* names are drawn per category so that no two sliders share a key.        *)
(***************************************************************************)
EXTENDS Integers, Sequences, FiniteSets, TLC

VARIABLES teams, charts, exported, notices, event, touched, deleted, steps

vars == <<teams, charts, exported, notices, event, touched, deleted, steps>>

---------------------------------------------------------------------------
(* Bounds of the model *)

MaxSteps == 2

MaxSkills == 9

---------------------------------------------------------------------------
(* Python dict and list primitives *)

Has(d, key) == \E i \in 1..Len(d) : d[i].k = key

Get(d, key) == d[CHOOSE i \in 1..Len(d) : d[i].k = key].v

Put(d, key, val) ==
    IF Has(d, key)
    THEN [d EXCEPT ![CHOOSE i \in 1..Len(d) : d[i].k = key].v = val]
    ELSE Append(d, [k |-> key, v |-> val])

Del(d, key) == SelectSeq(d, LAMBDA e : e.k # key)

Keys(d) == [i \in 1..Len(d) |-> d[i].k]

In(list, x) == \E i \in 1..Len(list) : list[i] = x

---------------------------------------------------------------------------
(* Program constants *)

DEFAULT_SKILLS ==
    << [k |-> "Technical",
        v |-> <<"Databricks", "Python", "NodeJS", "SQL", "Gitlab">>],
       [k |-> "Domain",
        v |-> <<"LM", "SM", "in vitro", "in vivo", "target">>],
       [k |-> "Operational",
        v |-> <<"SAFe", "Collab", "Comms", "SNOW", "Monitoring and Tracking">>] >>

Categories == <<"Technical", "Domain", "Operational">>

slider_min_value == 0

slider_max_value == 10

chart_min_skills == 5

chart_max_skills == 8

---------------------------------------------------------------------------
(* Text inputs.  A text is a sequence of atoms: a word, a comma, a newline *)
(* or a blank.                                                             *)

Comma == ","

Newline == "\n"

Blank == " "

\* input.replace("\n", ",")
replace_newlines(text) ==
    [i \in 1..Len(text) |-> IF text[i] = Newline THEN Comma ELSE text[i]]

\* str.split(","): the fields between the commas, empty fields included
RECURSIVE split(_, _, _)
split(text, i, field) ==
    IF i > Len(text) THEN <<field>>
    ELSE IF text[i] = Comma THEN <<field>> \o split(text, i + 1, <<>>)
    ELSE split(text, i + 1, Append(field, text[i]))

\* str.strip(): leading and trailing blanks removed
RECURSIVE strip(_)
strip(field) ==
    IF field = <<>> THEN <<>>
    ELSE IF Head(field) = Blank THEN strip(Tail(field))
    ELSE IF field[Len(field)] = Blank THEN strip(SubSeq(field, 1, Len(field) - 1))
    ELSE field

\* the names of the fields kept: each holds one word once stripped
names_of(kept) == [i \in 1..Len(kept) |-> strip(kept[i])[1]]

\* [x.strip() for x in input.replace("\n", ",").split(",") if x.strip()]
parse_names(text) ==
    names_of(SelectSeq(split(replace_newlines(text), 1, <<>>),
                       LAMBDA f : strip(f) # <<>>))

---------------------------------------------------------------------------
(* A run of the script works on a page: the team map of the session and    *)
(* what the run has put on display so far (notices, charts, the export),   *)
(* with the flag that st.rerun() was called.  Every function of the        *)
(* program takes the page and returns it as it leaves it.                  *)

NoExport == [clicked |-> FALSE, rows |-> <<>>, download |-> FALSE]

blank_page(T) ==
    [teams |-> T, notices |-> <<>>, charts |-> <<>>, exported |-> NoExport,
     rerun |-> FALSE]

\* st.success / st.warning / st.error
Notice(level, from) == [level |-> level, from |-> from]

say(p, level, from) == [p EXCEPT !.notices = Append(@, Notice(level, from))]

\* the click of a run: the one widget the user changed
Click(op, team, name, category, text, member, skill, level) ==
    [op |-> op, team |-> team, name |-> name, category |-> category,
     text |-> text, member |-> member, skill |-> skill, level |-> level]

NoClick == Click("none", "", "", "", <<>>, "", "", 0)

---------------------------------------------------------------------------
(* add_team *)

new_team ==
    [members |-> <<>>,
     skills |-> [i \in 1..Len(DEFAULT_SKILLS) |->
                    [k |-> DEFAULT_SKILLS[i].k, v |-> DEFAULT_SKILLS[i].v]]]

\* add_team as it would be if the new team replaced the whole team map
add_team_replaces_map(p, c) ==
    IF c.op # "add_team" THEN p
    ELSE IF c.name # "" /\ ~Has(p.teams, c.name)
    THEN say([p EXCEPT !.teams = <<[k |-> c.name, v |-> new_team]>>],
             "success", "add_team")
    ELSE IF Has(p.teams, c.name) THEN say(p, "warning", "add_team")
    ELSE say(p, "error", "add_team")

\* add_team as it would be without the test "team_name not in teams"
add_team_overwrites(p, c) ==
    IF c.op # "add_team" THEN p
    ELSE IF c.name # ""
    THEN say([p EXCEPT !.teams = Put(@, c.name, new_team)], "success", "add_team")
    ELSE say(p, "error", "add_team")

add_team(p, c) ==
    IF c.op # "add_team" THEN p
    ELSE IF c.name # "" /\ ~Has(p.teams, c.name)
    THEN say([p EXCEPT !.teams = Put(@, c.name, new_team)], "success", "add_team")
    ELSE IF Has(p.teams, c.name) THEN say(p, "warning", "add_team")
    ELSE say(p, "error", "add_team")

---------------------------------------------------------------------------
(* add_members *)

\* the loop as it would be if it started from an empty member dict
RECURSIVE add_member_loop_from_empty(_, _, _)
add_member_loop_from_empty(M, members, i) ==
    IF i > Len(members) THEN IF i = 1 THEN <<>> ELSE M
    ELSE IF members[i] # "" /\ ~Has(IF i = 1 THEN <<>> ELSE M, members[i])
    THEN add_member_loop_from_empty(Put(IF i = 1 THEN <<>> ELSE M, members[i], <<>>),
                                    members, i + 1)
    ELSE add_member_loop_from_empty(IF i = 1 THEN <<>> ELSE M, members, i + 1)

RECURSIVE add_member_loop(_, _, _)
add_member_loop(M, members, i) ==
    IF i > Len(members) THEN M
    ELSE IF members[i] # "" /\ ~Has(M, members[i])
    THEN add_member_loop(Put(M, members[i], <<>>), members, i + 1)
    ELSE add_member_loop(M, members, i + 1)

\* st.session_state.teams[team_name]["members"] becomes M
set_members(p, team_name, M) ==
    [p EXCEPT !.teams = Put(@, team_name, [Get(@, team_name) EXCEPT !.members = M])]

add_members(p, team_name, c) ==
    IF ~(c.op = "add_members" /\ c.team = team_name) THEN p
    ELSE IF c.text # <<>>
    THEN say(set_members(p, team_name,
                         add_member_loop(Get(p.teams, team_name).members,
                                         parse_names(c.text), 1)),
             "success", "add_members")
    ELSE say(p, "error", "add_members")

---------------------------------------------------------------------------
(* add_skills: one text area and one button per category *)

\* the loop as it would be without the test "skill_name not in list"
RECURSIVE add_skill_loop_unchecked(_, _, _)
add_skill_loop_unchecked(list, skills, i) ==
    IF i > Len(skills) THEN list
    ELSE IF skills[i] # ""
    THEN add_skill_loop_unchecked(Append(list, skills[i]), skills, i + 1)
    ELSE add_skill_loop_unchecked(list, skills, i + 1)

RECURSIVE add_skill_loop(_, _, _)
add_skill_loop(list, skills, i) ==
    IF i > Len(skills) THEN list
    ELSE IF skills[i] # "" /\ ~In(list, skills[i])
    THEN add_skill_loop(Append(list, skills[i]), skills, i + 1)
    ELSE add_skill_loop(list, skills, i + 1)

\* st.session_state.teams[team_name]["skills"][category] becomes list
set_skills(p, team_name, category, list) ==
    [p EXCEPT !.teams = Put(@, team_name,
                            [Get(@, team_name) EXCEPT
                                !.skills = Put(@, category, list)])]

add_skills_category(p, team_name, category, c) ==
    IF ~(c.op = "add_skills" /\ c.team = team_name /\ c.category = category) THEN p
    ELSE IF c.text # <<>>
    THEN say(set_skills(p, team_name, category,
                        add_skill_loop(Get(Get(p.teams, team_name).skills, category),
                                       parse_names(c.text), 1)),
             "success", "add_skills")
    ELSE say(p, "error", "add_skills")

\* for category in ["Technical", "Domain", "Operational"]
RECURSIVE add_skills_loop(_, _, _, _)
add_skills_loop(p, team_name, i, c) ==
    IF i > Len(Categories) THEN p
    ELSE add_skills_loop(add_skills_category(p, team_name, Categories[i], c),
                         team_name, i + 1, c)

add_skills(p, team_name, c) == add_skills_loop(p, team_name, 1, c)

---------------------------------------------------------------------------
(* assign_competency: one slider per (skill, member), its value stored *)

RECURSIVE Flatten(_)
Flatten(ss) == IF ss = <<>> THEN <<>> ELSE Head(ss) \o Flatten(Tail(ss))

\* the slider as it would be if its scale ran one past max_value
slider_past_max(T, team_name, member_name, skill, c) ==
    IF c.op = "slider" /\ c.team = team_name /\ c.member = member_name
       /\ c.skill = skill
    THEN c.level + 1
    ELSE IF Has(Get(Get(T, team_name).members, member_name), skill)
    THEN Get(Get(Get(T, team_name).members, member_name), skill)
    ELSE slider_min_value

\* st.slider(min_value=0, max_value=10, key=team_member_skill): the position
\* the user moved it to in this run, else the position it has (the level
\* the last run stored for its key), else min_value
slider(T, team_name, member_name, skill, c) ==
    IF c.op = "slider" /\ c.team = team_name /\ c.member = member_name
       /\ c.skill = skill
    THEN c.level
    ELSE IF Has(Get(Get(T, team_name).members, member_name), skill)
    THEN Get(Get(Get(T, team_name).members, member_name), skill)
    ELSE slider_min_value

\* for category, skills in ...items(): for skill in skills: the skills in
\* the order the loops reach them
skills_in_order(team_data) ==
    Flatten([i \in 1..Len(team_data.skills) |-> team_data.skills[i].v])

\* members[member_name][skill] = level for every skill.  The loops of
\* assign_competency take the members inside the skills; a store touches
\* one member's dict only, so each member's dict ends as if its skills
\* were stored in a row.
RECURSIVE store_levels(_, _, _, _, _, _, _)
store_levels(scores, skills, i, T, team_name, member_name, c) ==
    IF i > Len(skills) THEN scores
    ELSE store_levels(Put(scores, skills[i],
                          slider(T, team_name, member_name, skills[i], c)),
                      skills, i + 1, T, team_name, member_name, c)

assign_sliders(T, team_name, c) ==
    <<>> \o [j \in 1..Len(Get(T, team_name).members) |->
               [k |-> Get(T, team_name).members[j].k,
                v |-> store_levels(Get(T, team_name).members[j].v,
                                   skills_in_order(Get(T, team_name)), 1,
                                   T, team_name, Get(T, team_name).members[j].k, c)]]

assign_competency(p, team_name, c) ==
    IF \A i \in 1..Len(Get(p.teams, team_name).skills) :
          Get(p.teams, team_name).skills[i].v = <<>>
    THEN say(p, "warning", "assign_competency")
    ELSE set_members(p, team_name, assign_sliders(p.teams, team_name, c))

---------------------------------------------------------------------------
(* display_category_radar_chart *)

least(a, b) == IF a <= b THEN a ELSE b

greatest(a, b) == IF a >= b THEN a ELSE b

RECURSIVE min(_)
min(list) == IF Len(list) = 1 THEN list[1] ELSE least(list[1], min(Tail(list)))

RECURSIVE max(_)
max(list) == IF Len(list) = 1 THEN list[1] ELSE greatest(list[1], max(Tail(list)))

RECURSIVE sum(_)
sum(list) == IF list = <<>> THEN 0 ELSE list[1] + sum(Tail(list))

RECURSIVE gcd(_, _)
gcd(a, b) == IF b = 0 THEN a ELSE gcd(b, a % b)

\* a / b of two integers, b > 0: the quotient as a fraction in lowest terms
divide(a, b) == [num |-> a \div gcd(a, b), den |-> b \div gcd(a, b)]

\* the list as it would be if a member without an entry counted as zero
competencies_absent_as_zero(members, skill) ==
    <<>> \o [i \in 1..Len(members) |->
                IF Has(members[i].v, skill) THEN Get(members[i].v, skill) ELSE 0]

\* [members[member][skill] for member in members if skill in members[member]]
competencies(members, skill) ==
    <<>> \o [i \in 1..Len(SelectSeq(members, LAMBDA e : Has(e.v, skill))) |->
                Get(SelectSeq(members, LAMBDA e : Has(e.v, skill))[i].v, skill)]

average(list) == divide(sum(list), Len(list))

empty_skill_stats == [Skill |-> <<>>, Min |-> <<>>, Max |-> <<>>, Average |-> <<>>]

\* if competencies: the four appends
append_stats(stats, skill, list) ==
    IF list # <<>>
    THEN [Skill |-> Append(stats.Skill, skill),
          Min |-> Append(stats.Min, min(list)),
          Max |-> Append(stats.Max, max(list)),
          Average |-> Append(stats.Average, average(list))]
    ELSE stats

RECURSIVE skill_stats_loop(_, _, _, _)
skill_stats_loop(stats, members, skills, i) ==
    IF i > Len(skills) THEN stats
    ELSE skill_stats_loop(append_stats(stats, skills[i],
                                       competencies(members, skills[i])),
                          members, skills, i + 1)

\* the test as it would be with the upper limit off by one
renderable_up_to_nine(n) == ~(n < chart_min_skills \/ n > chart_max_skills + 1)

\* len(skills) < 5 or len(skills) > 8 is the refusal
renderable(n) == ~(n < chart_min_skills \/ n > chart_max_skills)

\* The outcome: fig says whether a figure is returned; warning is "none",
\* "add_first" (line 87, no count in the text) or "count" (line 104, with
\* count = <<n>>); stats is skill_stats as far as it was computed.
chart_of(stats) ==
    IF ~renderable(Len(stats.Skill))
    THEN [fig |-> FALSE, warning |-> "count", count |-> <<Len(stats.Skill)>>,
          stats |-> stats]
    ELSE [fig |-> TRUE, warning |-> "none", count |-> <<>>, stats |-> stats]

\* team_data["skills"].get(category, [])
skills_get(team_data, category) ==
    IF Has(team_data.skills, category) THEN Get(team_data.skills, category) ELSE <<>>

display_category_radar_chart(team_data, category) ==
    IF skills_get(team_data, category) = <<>> \/ team_data.members = <<>>
    THEN [fig |-> FALSE, warning |-> "add_first", count |-> <<>>,
          stats |-> empty_skill_stats]
    ELSE chart_of(skill_stats_loop(empty_skill_stats, team_data.members,
                                   skills_get(team_data, category), 1))

\* the three st.plotly_chart columns of one team
team_charts(team_data) ==
    <<>> \o [i \in 1..Len(Categories) |->
               [k |-> Categories[i],
                v |-> display_category_radar_chart(team_data, Categories[i])]]

show_charts(p, team_name) ==
    [p EXCEPT !.charts = Put(@, team_name, team_charts(Get(p.teams, team_name)))]

---------------------------------------------------------------------------
(* export_data and the Export button *)

Row(team, member, skill, level) ==
    [Team |-> team, Member |-> member, Skill |-> skill, Level |-> level]

\* export_data as it would be if it tested the level for truth ("if level:")
export_data_skips_zero(T) ==
    Flatten([t \in 1..Len(T) |->
        Flatten([m \in 1..Len(T[t].v.members) |->
            SelectSeq([s \in 1..Len(T[t].v.members[m].v) |->
                          Row(T[t].k, T[t].v.members[m].k,
                              T[t].v.members[m].v[s].k, T[t].v.members[m].v[s].v)],
                      LAMBDA row : row.Level # 0)])])

export_data(T) ==
    Flatten([t \in 1..Len(T) |->
        Flatten([m \in 1..Len(T[t].v.members) |->
            [s \in 1..Len(T[t].v.members[m].v) |->
                Row(T[t].k, T[t].v.members[m].k,
                    T[t].v.members[m].v[s].k, T[t].v.members[m].v[s].v)]])])

\* if not data.empty: st.download_button(...) else: st.warning(...)
offer(p, data) ==
    IF data # <<>>
    THEN [p EXCEPT !.exported = [clicked |-> TRUE, rows |-> data, download |-> TRUE]]
    ELSE say([p EXCEPT !.exported =
                           [clicked |-> TRUE, rows |-> data, download |-> FALSE]],
             "warning", "export")

export_button(p, c) == IF c.op # "export" THEN p ELSE offer(p, export_data(p.teams))

---------------------------------------------------------------------------
(* manage_teams and the script *)

\* the body of the loop over the teams, up to the Delete button
manage_team(p, team_name, c) ==
    show_charts(
        assign_competency(
            add_skills(add_members(p, team_name, c), team_name, c),
            team_name, c),
        team_name)

RECURSIVE manage_loop(_, _, _, _)

\* the Delete button as it would be if it emptied the team map
delete_button_clears(p, names, i, c) ==
    IF c.op = "delete" /\ c.team = names[i]
    THEN [p EXCEPT !.teams = <<>>, !.rerun = TRUE]
    ELSE manage_loop(p, names, i + 1, c)

\* if st.button("Delete ..."): del ...; st.rerun() -- else on to the next team
delete_button(p, names, i, c) ==
    IF c.op = "delete" /\ c.team = names[i]
    THEN [p EXCEPT !.teams = Del(@, names[i]), !.rerun = TRUE]
    ELSE manage_loop(p, names, i + 1, c)

manage_loop(p, names, i, c) ==
    IF i > Len(names) THEN p
    ELSE delete_button(manage_team(p, names[i], c), names, i, c)

manage_teams(p, c) ==
    IF p.teams = <<>> THEN say(p, "warning", "manage_teams")
    ELSE manage_loop(p, Keys(p.teams), 1, c)

RECURSIVE script(_, _)

\* st.rerun() starts the script again with no button pressed; otherwise
\* the run goes on to the Export button
after_manage_teams(p, c) ==
    IF p.rerun THEN script(p.teams, NoClick) ELSE export_button(p, c)

\* one run of the script, top to bottom
script(T, c) == after_manage_teams(manage_teams(add_team(blank_page(T), c), c), c)

---------------------------------------------------------------------------
(* The inputs of the user *)

TeamNames == {"", "Alpha", "Beta", "Gamma"}

\* What the user types into the member text area: nothing, separators
\* only, one name, two names, one name twice.
MemberTexts ==
    { <<>>,
      <<Blank, Comma, Blank>>,
      <<"Ana">>,
      <<"Ana", Comma, Blank, "Ben">>,
      <<"Ben", Newline, "Ben">> }

\* What the user types into the skill text area of a category: nothing, a
\* default skill and a new one, a new one twice and, for Technical, four
\* new skills at once.  No name is typed into two categories: the slider
\* keys team_member_skill stay distinct.
OldSkill(category) == Get(DEFAULT_SKILLS, category)[1]

NewSkill(category) ==
    IF category = "Technical" THEN "Rust"
    ELSE IF category = "Domain" THEN "PK"
    ELSE "Agile"

SkillTexts(category) ==
    { <<>>,
      <<OldSkill(category), Comma, NewSkill(category)>>,
      <<Blank, NewSkill(category), Blank, Newline, NewSkill(category)>> }
    \cup (IF category = "Technical"
          THEN {<<"Rust", Comma, "Go", Comma, "Java", Comma, "Scala">>}
          ELSE {})

\* the skills whose sliders the user moves, and the positions moved to
SliderSkills == {"Python", "LM"}

SliderLevels == {3, 7, slider_max_value}

team_skills(team_data) ==
    UNION {{team_data.skills[i].v[j] : j \in 1..Len(team_data.skills[i].v)} :
              i \in 1..Len(team_data.skills)}

---------------------------------------------------------------------------
(* The interactive session *)

\* A session is observed from its start, or after the user has created
\* team Alpha with Ana (Python 7) and Ben (Python 3) and team Beta with Ana
\* (LM 3): the clicks already made are replayed through the script.
Sessions ==
    { <<>>,
      << Click("add_team", "", "Alpha", "", <<>>, "", "", 0),
         Click("add_members", "Alpha", "", "", <<"Ana", Comma, "Ben">>, "", "", 0),
         Click("slider", "Alpha", "", "", <<>>, "Ana", "Python", 7),
         Click("slider", "Alpha", "", "", <<>>, "Ben", "Python", 3),
         Click("add_team", "", "Beta", "", <<>>, "", "", 0),
         Click("add_members", "Beta", "", "", <<"Ana">>, "", "", 0),
         Click("slider", "Beta", "", "", <<>>, "Ana", "LM", 3) >> }

RECURSIVE Replay(_, _, _)
Replay(p, clicks, i) ==
    IF i > Len(clicks) THEN p ELSE Replay(script(p.teams, clicks[i]), clicks, i + 1)

Init ==
    \E clicks \in Sessions :
    /\ \E r \in {Replay(blank_page(<<>>), clicks, 1)} :
          /\ teams = r.teams
          /\ charts = r.charts
    /\ exported = NoExport
    /\ notices = <<>>
    /\ event = NoClick
    /\ touched = {<<clicks[i].team, clicks[i].member, clicks[i].skill>> :
                      i \in {j \in 1..Len(clicks) : clicks[j].op = "slider"}}
    /\ deleted = {}
    /\ steps = 0

\* one interaction: the script runs with click c
Run(c) ==
    /\ steps < MaxSteps
    /\ \E r \in {script(teams, c)} :
          /\ teams' = r.teams
          /\ charts' = r.charts
          /\ exported' = r.exported
          /\ notices' = r.notices
    /\ event' = c
    /\ steps' = steps + 1

ClickAddTeam ==
    \E name \in TeamNames :
        /\ Run(Click("add_team", "", name, "", <<>>, "", "", 0))
        /\ deleted' = deleted \ {name}
        /\ UNCHANGED touched

ClickAddMembers ==
    \E i \in 1..Len(teams), text \in MemberTexts :
        /\ Run(Click("add_members", teams[i].k, "", "", text, "", "", 0))
        /\ UNCHANGED <<touched, deleted>>

ClickAddSkills ==
    \E i \in 1..Len(teams), j \in 1..Len(Categories) :
        \E text \in SkillTexts(Categories[j]) :
            /\ Run(Click("add_skills", teams[i].k, "", Categories[j], text, "", "", 0))
            /\ UNCHANGED <<touched, deleted>>

MoveSlider ==
    \E i \in 1..Len(teams) :
        \E j \in 1..Len(teams[i].v.members) :
            \E skill \in SliderSkills \cap team_skills(teams[i].v) :
                \E level \in SliderLevels :
                    /\ Run(Click("slider", teams[i].k, "", "", <<>>,
                                 teams[i].v.members[j].k, skill, level))
                    /\ touched' = touched \cup
                                    {<<teams[i].k, teams[i].v.members[j].k, skill>>}
                    /\ UNCHANGED deleted

ClickDelete ==
    \E i \in 1..Len(teams) :
        /\ Run(Click("delete", teams[i].k, "", "", <<>>, "", "", 0))
        /\ touched' = {p \in touched : p[1] # teams[i].k}
        /\ deleted' = deleted \cup {teams[i].k}

ClickExport ==
    /\ Run(Click("export", "", "", "", <<>>, "", "", 0))
    /\ UNCHANGED <<touched, deleted>>

Next ==
    \/ ClickAddTeam
    \/ ClickAddMembers
    \/ ClickAddSkills
    \/ MoveSlider
    \/ ClickDelete
    \/ ClickExport

Spec == Init /\ [][Next]_vars

---------------------------------------------------------------------------
(* The aggregation and the export as functions of the team map: they are   *)
(* applied to team maps with sparse scores, whatever interaction produced  *)
(* them.                                                                   *)

SkillPool ==
    <<"Databricks", "Python", "NodeJS", "SQL", "Gitlab",
      "Rust", "Go", "Java", "Scala", "Kotlin">>

\* a member's scores: the skills of SkillPool numbered in idx, with levels
\* that differ from skill to skill
SparseScores(idx, base, stride) ==
    LET picked == SelectSeq([i \in 1..Len(SkillPool) |-> IF i \in idx THEN i ELSE 0],
                            LAMBDA i : i # 0)
    IN [p \in 1..Len(picked) |->
           [k |-> SkillPool[picked[p]],
            v |-> (base + stride * picked[p]) % (slider_max_value + 1)]]

SparseMembers(n) ==
    {<<>>}
    \cup {<<[k |-> "Ana", v |-> SparseScores(lo..a, base, 1)]>> :
             lo \in 1..2, a \in 0..n, base \in {0, 7}}
    \cup {<<[k |-> "Ana", v |-> SparseScores(lo..a, base, 1)],
            [k |-> "Ben", v |-> SparseScores(b..n, 3, 3)]>> :
             lo \in 1..2, a \in 0..n, b \in 1..(n + 1), base \in {0, 7}}

SparseTeams ==
    LET alpha(n, members) ==
            [k |-> "Alpha",
             v |-> [members |-> members,
                    skills |-> Put(new_team.skills, "Technical",
                                   SubSeq(SkillPool, 1, n))]]
        beta == [k |-> "Beta",
                 v |-> [new_team EXCEPT
                           !.members = <<[k |-> "Ana",
                                          v |-> <<[k |-> "LM", v |-> 4]>>]>>]]
        one == UNION {{alpha(n, members) : members \in SparseMembers(n)} :
                         n \in 0..MaxSkills}
    IN {<<>>} \cup {<<t>> : t \in one} \cup {<<t, beta>> : t \in one}

InitPure ==
    /\ teams \in SparseTeams
    /\ charts = <<>>
    /\ exported = NoExport
    /\ notices = <<>>
    /\ event = NoClick
    /\ touched = {}
    /\ deleted = {}
    /\ steps = 0

\* display_category_radar_chart applied to every team and category
RenderCharts ==
    /\ charts' = <<>> \o [i \in 1..Len(teams) |->
                     [k |-> teams[i].k, v |-> team_charts(teams[i].v)]]
    /\ event' = Click("render", "", "", "", <<>>, "", "", 0)
    /\ UNCHANGED <<teams, exported, notices, touched, deleted, steps>>

\* the Export button's handler applied to the team map
ExportData ==
    /\ \E p \in {export_button(blank_page(teams),
                                 Click("export", "", "", "", <<>>, "", "", 0))} :
          /\ exported' = p.exported
          /\ notices' = p.notices
    /\ event' = Click("export", "", "", "", <<>>, "", "", 0)
    /\ UNCHANGED <<teams, charts, touched, deleted, steps>>

NextPure ==
    \/ RenderCharts
    \/ ExportData

SpecPure == InitPure /\ [][NextPure]_vars

---------------------------------------------------------------------------
(* Views of the state used by the properties *)

\* the sparse score mapping: every (team, member, skill, level) on record
Scored(T) ==
    UNION {UNION {{<<T[t].k, T[t].v.members[m].k,
                     T[t].v.members[m].v[s].k, T[t].v.members[m].v[s].v>> :
                        s \in 1..Len(T[t].v.members[m].v)} :
                     m \in 1..Len(T[t].v.members)} :
              t \in 1..Len(T)}

Succeeded(from) == In(notices, Notice("success", from))

---------------------------------------------------------------------------
(* C1: add team with a non-empty name that is not yet a key of the team    *)
(* map yields exactly one team of that name, with the three categories     *)
(* holding their default skill lists and no members; every team that       *)
(* existed before is unchanged.                                            *)

C1_AddTeamCreatesDefaultTeam ==
    [][(event'.op = "add_team" /\ event'.name # "" /\ ~Has(teams, event'.name))
       => /\ Cardinality({i \in 1..Len(teams') : teams'[i].k = event'.name}) = 1
          /\ Len(teams') = Len(teams) + 1
          /\ LET team == Get(teams', event'.name)
             IN /\ team.members = <<>>
                /\ Len(team.skills) = 3
                /\ Get(team.skills, "Technical")
                     = <<"Databricks", "Python", "NodeJS", "SQL", "Gitlab">>
                /\ Get(team.skills, "Domain")
                     = <<"LM", "SM", "in vitro", "in vivo", "target">>
                /\ Get(team.skills, "Operational")
                     = <<"SAFe", "Collab", "Comms", "SNOW", "Monitoring and Tracking">>
          /\ \A i \in 1..Len(teams) : teams'[i] = teams[i]]_vars

\* a team was added next to a team that has members and scores
C1_Witness ==
    /\ event.op = "add_team"
    /\ Succeeded("add_team")
    /\ \E i \in 1..Len(teams) :
          /\ teams[i].k # event.name
          /\ \E m \in 1..Len(teams[i].v.members) : teams[i].v.members[m].v # <<>>

---------------------------------------------------------------------------
(* C2: a rejected add team (empty name, or a name that is already a key)   *)
(* leaves the whole team map unchanged.                                    *)

C2_RejectedAddTeamChangesNothing ==
    [][(event'.op = "add_team" /\ (event'.name = "" \/ Has(teams, event'.name)))
       => teams' = teams]_vars

\* a duplicate name was refused for a team that has non-zero scores
C2_Witness ==
    /\ event.op = "add_team"
    /\ In(notices, Notice("warning", "add_team"))
    /\ \E p \in Scored(teams) : p[1] = event.name /\ p[4] > 0

---------------------------------------------------------------------------
(* C3: every stored competency level is an integer in 0..10 and each       *)
(* (team, member, skill) has at most one stored level; setting the level   *)
(* of a pair again replaces the earlier value.                             *)

C3_LevelsInRangeOnePerPair ==
    /\ [](\A t \in 1..Len(teams) : \A m \in 1..Len(teams[t].v.members) :
             \A s \in 1..Len(teams[t].v.members[m].v) :
                /\ teams[t].v.members[m].v[s].v \in 0..10
                /\ \A t2 \in 1..Len(teams) : teams[t2].k = teams[t].k => t2 = t
                /\ \A m2 \in 1..Len(teams[t].v.members) :
                      teams[t].v.members[m2].k = teams[t].v.members[m].k => m2 = m
                /\ \A s2 \in 1..Len(teams[t].v.members[m].v) :
                      teams[t].v.members[m].v[s2].k = teams[t].v.members[m].v[s].k
                         => s2 = s)
    /\ [][event'.op = "slider"
          => {p \in Scored(teams') : /\ p[1] = event'.team
                                     /\ p[2] = event'.member
                                     /\ p[3] = event'.skill}
               = {<<event'.team, event'.member, event'.skill, event'.level>>}]_vars

\* Ana's Python level in Alpha, 7 when the session is picked up, is set to 10
C3_Witness ==
    /\ steps = 1
    /\ event.op = "slider"
    /\ event.team = "Alpha" /\ event.member = "Ana" /\ event.skill = "Python"
    /\ event.level = 10
    /\ <<"Alpha", "Ana", "Python", 10>> \in Scored(teams)

---------------------------------------------------------------------------
(* Views of the aggregation's input *)

\* the (member, level) pairs recorded for a skill in a team
Levels(team_data, skill) ==
    UNION {{<<team_data.members[m].k, team_data.members[m].v[s].v>> :
               s \in {x \in 1..Len(team_data.members[m].v) :
                         team_data.members[m].v[x].k = skill}} :
              m \in 1..Len(team_data.members)}

RECURSIVE SumLevels(_)
SumLevels(L) ==
    IF L = {} THEN 0
    ELSE LET p == CHOOSE q \in L : TRUE IN p[2] + SumLevels(L \ {p})

\* the eligible skills of a category, in the order of its skill list
EligibleSkills(team_data, category) ==
    SelectSeq(Get(team_data.skills, category),
              LAMBDA x : Levels(team_data, x) # {})

\* the charts on display with the team and category they belong to
Displayed ==
    UNION {{[team |-> Get(teams, charts[i].k), category |-> charts[i].v[j].k,
             out |-> charts[i].v[j].v] : j \in 1..Len(charts[i].v)} :
              i \in 1..Len(charts)}

---------------------------------------------------------------------------
(* C4: the aggregation of a team's category has one record per skill of    *)
(* the category with at least one recorded level, in the order of the      *)
(* skill list, and none for a skill without a level; min and max are the   *)
(* least and greatest recorded level and the average is their sum divided  *)
(* by their number, members without an entry not counted.                  *)

C4_AggregationOverScoredMembers ==
    \A d \in Displayed :
        LET want == EligibleSkills(d.team, d.category)
            stats == d.out.stats
        IN /\ stats.Skill = want
           /\ Len(stats.Min) = Len(want)
           /\ Len(stats.Max) = Len(want)
           /\ Len(stats.Average) = Len(want)
           /\ \A r \in 1..Len(want) :
                 LET L == Levels(d.team, want[r])
                 IN /\ \E p \in L : stats.Min[r] = p[2]
                    /\ \A p \in L : stats.Min[r] <= p[2]
                    /\ \E p \in L : stats.Max[r] = p[2]
                    /\ \A p \in L : stats.Max[r] >= p[2]
                    /\ stats.Average[r].den > 0
                    /\ stats.Average[r].num * Cardinality(L)
                         = SumLevels(L) * stats.Average[r].den

\* a category with a skill nobody is scored on ahead of scored ones, a
\* skill only one of two members is scored on, and a skill on which the
\* two members differ
C4_Witness ==
    \E d \in Displayed :
        LET skills == Get(d.team.skills, d.category)
        IN /\ Len(d.team.members) = 2
           /\ Len(d.out.stats.Skill) >= 2
           /\ Levels(d.team, skills[1]) = {}
           /\ \E r \in 1..Len(d.out.stats.Skill) :
                 Cardinality(Levels(d.team, d.out.stats.Skill[r])) = 1
           /\ \E r \in 1..Len(d.out.stats.Skill) :
                 d.out.stats.Min[r] < d.out.stats.Max[r]

---------------------------------------------------------------------------
(* C5: a chart is produced exactly when the category has between 5 and 8   *)
(* eligible skills; otherwise none is produced and a notice is shown.      *)
(* As the spec states it, the notice always reports the number of eligible *)
(* skills, also for an empty skill list or member set.                     *)

C5_Original ==
    \A d \in Displayed :
        LET n == Len(EligibleSkills(d.team, d.category))
        IN /\ d.out.fig <=> n \in 5..8
           /\ ~d.out.fig => d.out.count = <<n>>

(* C5 as amended: the notice reports the count when the category has       *)
(* skills and the team has members; with no skills or no members the       *)
(* notice asks to add them and carries no count.                           *)
C5_ChartIffFiveToEight ==
    \A d \in Displayed :
        LET n == Len(EligibleSkills(d.team, d.category))
            nothing == Get(d.team.skills, d.category) = <<>> \/ d.team.members = <<>>
        IN /\ d.out.fig <=> n \in 5..8
           /\ d.out.fig => d.out.warning = "none"
           /\ (~d.out.fig /\ ~nothing)
                 => d.out.warning = "count" /\ d.out.count = <<n>>
           /\ nothing
                 => n = 0 /\ d.out.warning = "add_first" /\ d.out.count = <<>>

\* a category with nine scored skills is refused with count 9, next to a
\* category that is drawn
C5_Witness ==
    /\ \E d \in Displayed : d.out.warning = "count" /\ d.out.count = <<9>>
    /\ \E d \in Displayed : d.out.fig

---------------------------------------------------------------------------
(* C6: a (member, skill) pair has a recorded level only if a set           *)
(* competency was performed for that pair: adding a member (or anything    *)
(* else) records no level, and setting one pair leaves every other pair's  *)
(* entry, present or absent, unchanged.                                    *)

C6_Original ==
    [][\A p \in Scored(teams') :
          \/ p \in Scored(teams)
          \/ /\ event'.op = "slider"
             /\ <<p[1], p[2], p[3]>> = <<event'.team, event'.member, event'.skill>>]_vars

---------------------------------------------------------------------------
(* C7: deleting a team removes exactly that team and leaves every other    *)
(* team unchanged; until a team of that name is created again no export    *)
(* has a row of the deleted name, and a team created under that name       *)
(* starts with the default skills, no members and no scores.               *)

---------------------------------------------------------------------------
(* C8: the export holds exactly one record for each (team, member, skill)  *)
(* with a recorded level, carrying that level, and no other record; it is  *)
(* empty (no download, a "no data" notice) exactly when no level is        *)
(* recorded anywhere.                                                       *)

C8_ExportIsTheScoreMapping ==
    exported.clicked
    => /\ \A p \in Scored(teams) :
             Cardinality({r \in 1..Len(exported.rows) :
                             /\ exported.rows[r].Team = p[1]
                             /\ exported.rows[r].Member = p[2]
                             /\ exported.rows[r].Skill = p[3]}) = 1
       /\ \A r \in 1..Len(exported.rows) :
             <<exported.rows[r].Team, exported.rows[r].Member,
               exported.rows[r].Skill, exported.rows[r].Level>> \in Scored(teams)
       /\ exported.download <=> Scored(teams) # {}
       /\ ~exported.download <=> In(notices, Notice("warning", "export"))
       /\ exported.rows = <<>> <=> Scored(teams) = {}

\* an export of two teams that share a member name, with a level 0 on
\* record and a member who has no level for a skill another member has
C8_Witness ==
    /\ exported.clicked
    /\ Len(teams) = 2
    /\ \E p \in Scored(teams) : p[4] = 0
    /\ \E p \in Scored(teams), q \in Scored(teams) : p[1] # q[1] /\ p[2] = q[2]
    /\ \E p \in Scored(teams) :
          \E m \in 1..Len(Get(teams, p[1]).members) :
             ~Has(Get(teams, p[1]).members[m].v, p[3])

---------------------------------------------------------------------------
(* C9: no category's skill list holds a name twice; add skills appends the *)
(* submitted names that are not empty and not yet in the list, once each,  *)
(* keeps the existing skills in place, and changes nothing on an empty     *)
(* submission.                                                              *)

Words(text) == {text[i] : i \in 1..Len(text)} \ {Comma, Newline, Blank}

NoRepeat(list) == \A i \in 1..Len(list), j \in 1..Len(list) : list[i] = list[j] => i = j

C9_SkillListsWithoutDuplicates ==
    /\ [](\A t \in 1..Len(teams) : \A c \in 1..Len(teams[t].v.skills) :
             NoRepeat(teams[t].v.skills[c].v))
    /\ [][event'.op = "add_skills"
          => LET old == Get(Get(teams, event'.team).skills, event'.category)
                 new == Get(Get(teams', event'.team).skills, event'.category)
             IN /\ Len(new) >= Len(old)
                /\ SubSeq(new, 1, Len(old)) = old
                /\ {new[i] : i \in 1..Len(new)}
                     = {old[i] : i \in 1..Len(old)} \cup Words(event'.text)
                /\ NoRepeat(new)
                /\ event'.text = <<>> => teams' = teams
                /\ \A t \in 1..Len(teams) : \A c \in 1..Len(teams[t].v.skills) :
                      (teams[t].k # event'.team
                       \/ teams[t].v.skills[c].k # event'.category)
                         => teams'[t].v.skills[c] = teams[t].v.skills[c]]_vars

\* a submission naming a new skill twice has added it once, at the end
C9_Witness ==
    /\ event.op = "add_skills"
    /\ event.text = <<Blank, "Rust", Blank, Newline, "Rust">>
    /\ Get(Get(teams, event.team).skills, "Technical")
         = <<"Databricks", "Python", "NodeJS", "SQL", "Gitlab", "Rust">>

---------------------------------------------------------------------------
(* C10: add members never changes an existing member: a submitted name     *)
(* that is already a member keeps its recorded scores, and new names leave *)
(* the scores of the existing members and every other team unchanged.      *)

C10_AddMembersKeepsExistingMembers ==
    [][event'.op = "add_members"
       => /\ Len(teams') = Len(teams)
          /\ \A t \in 1..Len(teams) :
                IF teams[t].k # event'.team THEN teams'[t] = teams[t]
                ELSE /\ teams'[t].k = teams[t].k
                     /\ teams'[t].v.skills = teams[t].v.skills
                     /\ Len(teams'[t].v.members) >= Len(teams[t].v.members)
                     /\ \A m \in 1..Len(teams[t].v.members) :
                           teams'[t].v.members[m] = teams[t].v.members[m]]_vars

\* Ana, already in Beta with LM 3, was submitted again together with a new
\* name
C10_Witness ==
    /\ event.op = "add_members"
    /\ event.team = "Beta"
    /\ event.text = <<"Ana", Comma, Blank, "Ben">>
    /\ Has(Get(teams, "Beta").members, "Ben")
    /\ <<"Beta", "Ana", "LM", 3>> \in Scored(teams)

====
